---- MODULE Spec2Model ----
(***************************************************************************)
(* DNS zone import pipeline of cloudflare-cli-rs (src/src/ops/dns.rs):     *)
(* format detection, the tabular (CSV) parser, the zone-file (BIND)        *)
(* parser and the sequential batch import executor.                        *)
(*                                                                         *)
(* Text is a sequence of one-character strings, so that trimming,          *)
(* splitting, prefix tests and number parsing are computed as the code     *)
(* computes them.  Option<T> is a sequence of length 0 (None) or 1 (Some). *)
(***************************************************************************)
EXTENDS Integers, Sequences, FiniteSets, TLC

VARIABLES
    pc,              \* control location of the running call
    entry,           \* the function that was called
    contents,        \* the text being parsed
    format,          \* the parser detect_and_parse_format or the caller chose
    lines,           \* the lines / csv records the parser loop has not consumed yet
    headers,         \* csv::Reader header record: None or Some(fields)
    records,         \* the Vec<CreateDnsRecord> under construction / being imported
    default_origin,  \* zone-file parser state
    default_ttl,     \* zone-file parser state
    parsed,          \* value returned by the parser call
    stats,           \* ImportStats of the batch
    calls,           \* the intents create_record has been called with, in call order
    outcomes,        \* the outcome of every create_record call that has returned
    inflight,        \* number of create_record calls awaiting their outcome
    result,          \* value returned by import_records
    retry_pc,        \* control location of the retry_with_backoff call
    config,          \* the RetryConfig the call was given
    attempt,         \* retry_with_backoff: let mut attempt
    delay,           \* retry_with_backoff: let mut delay
    invocations,     \* number of times operation() has been invoked
    operation_results, \* what each invocation of operation() that returned, returned
    waits,           \* the durations passed to sleep, in call order
    retry_result     \* value returned by retry_with_backoff

importVars == <<pc, entry, contents, format, lines, headers, records, default_origin,
                default_ttl, parsed, stats, calls, outcomes, inflight, result>>

retryVars == <<retry_pc, config, attempt, delay, invocations, operation_results, waits,
               retry_result>>

vars == <<importVars, retryVars>>

(***************************************************************************)
(* Bounds of the model.                                                    *)
(***************************************************************************)
MaxBindLines == 2
MaxCsvRows == 2

(***************************************************************************)
(* Option<T>.                                                              *)
(***************************************************************************)
None == <<>>
Some(v) == <<v>>
IsSome(o) == Len(o) = 1

(***************************************************************************)
(* str primitives of the Rust standard library, as used by the parsers.    *)
(***************************************************************************)
Digits == <<"0", "1", "2", "3", "4", "5", "6", "7", "8", "9">>
LowerCase == <<"a", "b", "c", "d", "e", "f", "g", "h", "i", "j", "k", "l", "m",
               "n", "o", "p", "q", "r", "s", "t", "u", "v", "w", "x", "y", "z">>
UpperCase == <<"A", "B", "C", "D", "E", "F", "G", "H", "I", "J", "K", "L", "M",
               "N", "O", "P", "Q", "R", "S", "T", "U", "V", "W", "X", "Y", "Z">>

IsWhitespace(c) == c \in {" ", "\t", "\r", "\n"}
IsDigit(c) == \E d \in 1..10 : Digits[d] = c
DigitValue(c) == (CHOOSE d \in 1..10 : Digits[d] = c) - 1

\* char::to_uppercase on the ASCII range
ToUpperChar(c) ==
    IF \E k \in 1..26 : LowerCase[k] = c
    THEN UpperCase[CHOOSE k \in 1..26 : LowerCase[k] = c]
    ELSE c

\* str::to_uppercase
ToUppercase(s) == [k \in 1..Len(s) |-> ToUpperChar(s[k])]

\* str::starts_with(&str)
StartsWith(s, p) == Len(s) >= Len(p) /\ SubSeq(s, 1, Len(p)) = p

\* str::ends_with(char)
EndsWithChar(s, c) == Len(s) > 0 /\ s[Len(s)] = c

\* str::contains(&str)
Contains(s, p) == \E k \in 0..(Len(s) - Len(p)) : SubSeq(s, k + 1, k + Len(p)) = p

\* str::trim_end_matches(char): every trailing occurrence is removed
RECURSIVE TrimEndMatches(_, _)
TrimEndMatches(s, c) ==
    IF Len(s) > 0 /\ s[Len(s)] = c
    THEN TrimEndMatches(SubSeq(s, 1, Len(s) - 1), c)
    ELSE s

\* str::trim_start_matches(char)
RECURSIVE TrimStartMatches(_, _)
TrimStartMatches(s, c) ==
    IF Len(s) > 0 /\ s[1] = c
    THEN TrimStartMatches(Tail(s), c)
    ELSE s

\* str::trim_matches(char)
TrimMatches(s, c) == TrimEndMatches(TrimStartMatches(s, c), c)

RECURSIVE TrimEndWs(_)
TrimEndWs(s) ==
    IF Len(s) > 0 /\ IsWhitespace(s[Len(s)])
    THEN TrimEndWs(SubSeq(s, 1, Len(s) - 1))
    ELSE s

RECURSIVE TrimStartWs(_)
TrimStartWs(s) ==
    IF Len(s) > 0 /\ IsWhitespace(s[1])
    THEN TrimStartWs(Tail(s))
    ELSE s

\* str::trim
Trim(s) == TrimEndWs(TrimStartWs(s))

\* str::split(char): n separators give n + 1 pieces
RECURSIVE SplitFrom(_, _, _, _)
SplitFrom(s, c, i, cur) ==
    IF i > Len(s) THEN <<cur>>
    ELSE IF s[i] = c THEN <<cur>> \o SplitFrom(s, c, i + 1, <<>>)
    ELSE SplitFrom(s, c, i + 1, Append(cur, s[i]))

Split(s, c) == SplitFrom(s, c, 1, <<>>)

\* str::split_whitespace: maximal runs of non-whitespace characters
RECURSIVE SplitWsFrom(_, _, _)
SplitWsFrom(s, i, cur) ==
    IF i > Len(s) THEN (IF cur = <<>> THEN <<>> ELSE <<cur>>)
    ELSE IF IsWhitespace(s[i])
         THEN (IF cur = <<>> THEN <<>> ELSE <<cur>>) \o SplitWsFrom(s, i + 1, <<>>)
         ELSE SplitWsFrom(s, i + 1, Append(cur, s[i]))

SplitWhitespace(s) == SplitWsFrom(s, 1, <<>>)

\* str::lines: pieces between "\n", a final empty piece dropped, one trailing
\* "\r" of each line dropped
StrLines(s) ==
    LET p == Split(s, "\n")
        q == IF p[Len(p)] = <<>> THEN SubSeq(p, 1, Len(p) - 1) ELSE p
    IN  [k \in 1..Len(q) |->
            IF EndsWithChar(q[k], "\r") THEN SubSeq(q[k], 1, Len(q[k]) - 1) ELSE q[k]]

\* [&str]::join(" ")
RECURSIVE JoinWith(_, _)
JoinWith(parts, sep) ==
    IF parts = <<>> THEN <<>>
    ELSE IF Len(parts) = 1 THEN parts[1]
    ELSE parts[1] \o sep \o JoinWith(Tail(parts), sep)

(***************************************************************************)
(* str::parse::<u32>() and str::parse::<u16>(): an optional '+', then one  *)
(* or more decimal digits, the value within the type's range.  Range is    *)
(* decided on the digit string, so no intermediate value leaves the range. *)
(***************************************************************************)
U32MaxDigits == <<"4", "2", "9", "4", "9", "6", "7", "2", "9", "5">>
U16MaxDigits == <<"6", "5", "5", "3", "5">>

RECURSIVE DigitsGreater(_, _)
DigitsGreater(a, b) ==
    IF a = <<>> THEN FALSE
    ELSE IF DigitValue(a[1]) # DigitValue(b[1]) THEN DigitValue(a[1]) > DigitValue(b[1])
    ELSE DigitsGreater(Tail(a), Tail(b))

RECURSIVE DigitsValue(_, _)
DigitsValue(ds, acc) ==
    IF ds = <<>> THEN acc ELSE DigitsValue(Tail(ds), acc * 10 + DigitValue(ds[1]))

\* None on a parse error, Some(value) otherwise
ParseUnsigned(tok, maxDigits) ==
    LET body == IF Len(tok) > 0 /\ tok[1] = "+" THEN Tail(tok) ELSE tok
        sig  == TrimStartMatches(body, "0")
    IN  IF body = <<>> \/ \E k \in 1..Len(body) : ~IsDigit(body[k]) THEN None
        ELSE IF Len(sig) > Len(maxDigits) THEN None
        ELSE IF Len(sig) = Len(maxDigits) /\ DigitsGreater(sig, maxDigits) THEN None
        ELSE Some(DigitsValue(sig, 0))

ParseU32(tok) == ParseUnsigned(tok, U32MaxDigits)
ParseU16(tok) == ParseUnsigned(tok, U16MaxDigits)

(***************************************************************************)
(* Slices: the code indexes token vectors from 0.                          *)
(***************************************************************************)
\* parts[idx]: defined only in bounds, the code panics otherwise
At(parts, idx) == parts[idx + 1]
\* parts.get(idx)
Get(parts, idx) == IF idx < Len(parts) THEN Some(parts[idx + 1]) ELSE None
\* parts[idx..]: defined for idx <= len, the code panics otherwise
SliceFrom(parts, idx) == SubSeq(parts, idx + 1, Len(parts))

(***************************************************************************)
(* Literals of the parsers.                                                *)
(***************************************************************************)
OriginDirective == <<"$", "O", "R", "I", "G", "I", "N">>
TtlDirective == <<"$", "T", "T", "L">>
ClassIN == <<"I", "N">>
InMarker == <<" ", "I", "N", " ">>
TypeA == <<"A">>
TypeAAAA == <<"A", "A", "A", "A">>
TypeCNAME == <<"C", "N", "A", "M", "E">>
TypeNS == <<"N", "S">>
TypeMX == <<"M", "X">>
TypeTXT == <<"T", "X", "T">>
At_ == <<"@">>

\* CreateDnsRecord (data: None is left out, no parser sets it)
CreateDnsRecord(t, n, c, ttl, proxied, priority) ==
    [record_type |-> t, name |-> n, content |-> c, ttl |-> ttl,
     proxied |-> proxied, priority |-> priority]

(***************************************************************************)
(* Zone-file (BIND) parser.                                                *)
(***************************************************************************)
\* only blank lines skipped
should_skip_line_blank_only(line) == line = <<>>

\* line.is_empty() || line.starts_with(';')
should_skip_line(line) == line = <<>> \/ line[1] = ";"

\* an origin stored as written, trailing dots included
process_bind_directive_keeping_dots(line, origin, ttl) ==
    LET toks == SplitWhitespace(line)
    IN  IF StartsWith(line, OriginDirective)
        THEN [handled |-> TRUE,
              default_origin |-> IF Len(toks) >= 2 THEN toks[2] ELSE <<>>,
              default_ttl |-> ttl]
        ELSE IF StartsWith(line, TtlDirective)
        THEN [handled |-> TRUE,
              default_origin |-> origin,
              default_ttl |->
                  IF Len(toks) >= 2
                  THEN (IF IsSome(ParseU32(toks[2])) THEN ParseU32(toks[2])[1] ELSE 1)
                  ELSE ttl]
        ELSE [handled |-> FALSE, default_origin |-> origin, default_ttl |-> ttl]

\* a default TTL that keeps its value when the token does not parse
process_bind_directive_keeping_ttl(line, origin, ttl) ==
    LET toks == SplitWhitespace(line)
    IN  IF StartsWith(line, OriginDirective)
        THEN [handled |-> TRUE,
              default_origin |->
                  TrimEndMatches(IF Len(toks) >= 2 THEN toks[2] ELSE <<>>, "."),
              default_ttl |-> ttl]
        ELSE IF StartsWith(line, TtlDirective)
        THEN [handled |-> TRUE,
              default_origin |-> origin,
              default_ttl |->
                  IF Len(toks) >= 2
                  THEN (IF IsSome(ParseU32(toks[2])) THEN ParseU32(toks[2])[1] ELSE ttl)
                  ELSE ttl]
        ELSE [handled |-> FALSE, default_origin |-> origin, default_ttl |-> ttl]

\* [handled, default_origin, default_ttl]
process_bind_directive(line, origin, ttl) ==
    LET toks == SplitWhitespace(line)
    IN  IF StartsWith(line, OriginDirective)
        THEN [handled |-> TRUE,
              default_origin |->
                  TrimEndMatches(IF Len(toks) >= 2 THEN toks[2] ELSE <<>>, "."),
              default_ttl |-> ttl]
        ELSE IF StartsWith(line, TtlDirective)
        THEN [handled |-> TRUE,
              default_origin |-> origin,
              default_ttl |->
                  IF Len(toks) >= 2
                  THEN (IF IsSome(ParseU32(toks[2])) THEN ParseU32(toks[2])[1] ELSE 1)
                  ELSE ttl]
        ELSE [handled |-> FALSE, default_origin |-> origin, default_ttl |-> ttl]

\* the guard left out
TooFewPartsUnchecked(parts) == FALSE

\* the guard one token short
TooFewPartsBelowThree(parts) == Len(parts) < 3

\* the guard of parse_bind_record_line
TooFewParts(parts) == Len(parts) < 4

\* the TTL token skipped without being used
extract_ttl_and_advance_unused(parts, idx, dttl) ==
    IF idx >= Len(parts)
    THEN [panic |-> TRUE, ttl |-> dttl, idx |-> idx]
    ELSE IF IsSome(ParseU32(At(parts, idx)))
    THEN [panic |-> FALSE, ttl |-> dttl, idx |-> idx + 1]
    ELSE [panic |-> FALSE, ttl |-> dttl, idx |-> idx]

\* [panic, ttl, idx]
extract_ttl_and_advance(parts, idx, dttl) ==
    IF idx >= Len(parts)
    THEN [panic |-> TRUE, ttl |-> dttl, idx |-> idx]
    ELSE IF IsSome(ParseU32(At(parts, idx)))
    THEN [panic |-> FALSE, ttl |-> ParseU32(At(parts, idx))[1], idx |-> idx + 1]
    ELSE [panic |-> FALSE, ttl |-> dttl, idx |-> idx]

\* Option<(record_type, idx)>
extract_record_type(parts, idx) ==
    IF Get(parts, idx) = None THEN None
    ELSE LET i2 == IF At(parts, idx) = ClassIN THEN idx + 1 ELSE idx
         IN  IF Get(parts, i2) = None THEN None
             ELSE Some([record_type |-> ToUppercase(At(parts, i2)), idx |-> i2 + 1])

\* the origin appended to a fully qualified name as well
build_full_domain_name_always_relative(name, origin) ==
    IF name = At_ THEN origin
    ELSE IF origin # <<>> THEN TrimEndMatches(name, ".") \o <<".">> \o origin
    ELSE TrimEndMatches(name, ".")

build_full_domain_name(name, origin) ==
    IF name = At_ THEN origin
    ELSE IF EndsWithChar(name, ".") THEN TrimEndMatches(name, ".")
    ELSE IF origin # <<>> THEN name \o <<".">> \o origin
    ELSE name

\* a priority defaulted to a present value for the single-token types
parse_record_content_defaulting(record_type, parts, idx) ==
    IF record_type \in {TypeA, TypeAAAA, TypeCNAME, TypeNS}
    THEN [panic |-> FALSE,
          value |-> IF Get(parts, idx) = None THEN None
                    ELSE Some([content |-> TrimEndMatches(At(parts, idx), "."),
                               priority |-> Some(0)])]
    ELSE IF record_type = TypeMX
    THEN [panic |-> FALSE,
          value |-> IF Get(parts, idx) = None \/ Get(parts, idx + 1) = None THEN None
                    ELSE Some([content |-> TrimEndMatches(At(parts, idx + 1), "."),
                               priority |-> ParseU16(At(parts, idx))])]
    ELSE IF record_type = TypeTXT /\ idx <= Len(parts)
    THEN [panic |-> FALSE,
          value |-> Some([content |->
                              TrimMatches(JoinWith(SliceFrom(parts, idx), <<" ">>), "\""),
                          priority |-> None])]
    ELSE [panic |-> FALSE, value |-> None]

\* the content of the single-token types taken as written
parse_record_content_keeping_dot(record_type, parts, idx) ==
    IF record_type \in {TypeA, TypeAAAA, TypeCNAME, TypeNS}
    THEN [panic |-> FALSE,
          value |-> IF Get(parts, idx) = None THEN None
                    ELSE Some([content |-> At(parts, idx), priority |-> None])]
    ELSE IF record_type = TypeMX
    THEN [panic |-> FALSE,
          value |-> IF Get(parts, idx) = None \/ Get(parts, idx + 1) = None THEN None
                    ELSE Some([content |-> TrimEndMatches(At(parts, idx + 1), "."),
                               priority |-> ParseU16(At(parts, idx))])]
    ELSE IF record_type = TypeTXT
    THEN IF idx > Len(parts)
         THEN [panic |-> TRUE, value |-> None]
         ELSE [panic |-> FALSE,
               value |-> Some([content |->
                                   TrimMatches(JoinWith(SliceFrom(parts, idx), <<" ">>), "\""),
                               priority |-> None])]
    ELSE [panic |-> FALSE, value |-> None]

\* an MX record dropped when its priority does not parse
parse_record_content_dropping_bad_priority(record_type, parts, idx) ==
    IF record_type \in {TypeA, TypeAAAA, TypeCNAME, TypeNS}
    THEN [panic |-> FALSE,
          value |-> IF Get(parts, idx) = None THEN None
                    ELSE Some([content |-> TrimEndMatches(At(parts, idx), "."),
                               priority |-> None])]
    ELSE IF record_type = TypeMX
    THEN [panic |-> FALSE,
          value |-> IF Get(parts, idx) = None \/ Get(parts, idx + 1) = None
                         \/ ParseU16(At(parts, idx)) = None
                    THEN None
                    ELSE Some([content |-> TrimEndMatches(At(parts, idx + 1), "."),
                               priority |-> ParseU16(At(parts, idx))])]
    ELSE IF record_type = TypeTXT
    THEN IF idx > Len(parts)
         THEN [panic |-> TRUE, value |-> None]
         ELSE [panic |-> FALSE,
               value |-> Some([content |->
                                   TrimMatches(JoinWith(SliceFrom(parts, idx), <<" ">>), "\""),
                               priority |-> None])]
    ELSE [panic |-> FALSE, value |-> None]

\* the text of a TXT record taken as written, quotes included
parse_record_content_keeping_quotes(record_type, parts, idx) ==
    IF record_type \in {TypeA, TypeAAAA, TypeCNAME, TypeNS}
    THEN [panic |-> FALSE,
          value |-> IF Get(parts, idx) = None THEN None
                    ELSE Some([content |-> TrimEndMatches(At(parts, idx), "."),
                               priority |-> None])]
    ELSE IF record_type = TypeMX
    THEN [panic |-> FALSE,
          value |-> IF Get(parts, idx) = None \/ Get(parts, idx + 1) = None THEN None
                    ELSE Some([content |-> TrimEndMatches(At(parts, idx + 1), "."),
                               priority |-> ParseU16(At(parts, idx))])]
    ELSE IF record_type = TypeTXT
    THEN IF idx > Len(parts)
         THEN [panic |-> TRUE, value |-> None]
         ELSE [panic |-> FALSE,
               value |-> Some([content |-> JoinWith(SliceFrom(parts, idx), <<" ">>),
                               priority |-> None])]
    ELSE [panic |-> FALSE, value |-> None]

\* every other type handled like the single-token types
parse_record_content_any_type(record_type, parts, idx) ==
    IF record_type \in {TypeA, TypeAAAA, TypeCNAME, TypeNS}
    THEN [panic |-> FALSE,
          value |-> IF Get(parts, idx) = None THEN None
                    ELSE Some([content |-> TrimEndMatches(At(parts, idx), "."),
                               priority |-> None])]
    ELSE IF record_type = TypeMX
    THEN [panic |-> FALSE,
          value |-> IF Get(parts, idx) = None \/ Get(parts, idx + 1) = None THEN None
                    ELSE Some([content |-> TrimEndMatches(At(parts, idx + 1), "."),
                               priority |-> ParseU16(At(parts, idx))])]
    ELSE IF record_type = TypeTXT
    THEN IF idx > Len(parts)
         THEN [panic |-> TRUE, value |-> None]
         ELSE [panic |-> FALSE,
               value |-> Some([content |->
                                   TrimMatches(JoinWith(SliceFrom(parts, idx), <<" ">>), "\""),
                               priority |-> None])]
    ELSE [panic |-> FALSE,
          value |-> IF Get(parts, idx) = None THEN None
                    ELSE Some([content |-> TrimEndMatches(At(parts, idx), "."),
                               priority |-> None])]

\* [panic, value: Option<(content, priority)>]
parse_record_content(record_type, parts, idx) ==
    IF record_type \in {TypeA, TypeAAAA, TypeCNAME, TypeNS}
    THEN [panic |-> FALSE,
          value |-> IF Get(parts, idx) = None THEN None
                    ELSE Some([content |-> TrimEndMatches(At(parts, idx), "."),
                               priority |-> None])]
    ELSE IF record_type = TypeMX
    THEN [panic |-> FALSE,
          value |-> IF Get(parts, idx) = None \/ Get(parts, idx + 1) = None THEN None
                    ELSE Some([content |-> TrimEndMatches(At(parts, idx + 1), "."),
                               priority |-> ParseU16(At(parts, idx))])]
    ELSE IF record_type = TypeTXT
    THEN IF idx > Len(parts)
         THEN [panic |-> TRUE, value |-> None]
         ELSE [panic |-> FALSE,
               value |-> Some([content |->
                                   TrimMatches(JoinWith(SliceFrom(parts, idx), <<" ">>), "\""),
                               priority |-> None])]
    ELSE [panic |-> FALSE, value |-> None]

\* intents built with proxied: Some(true)
parse_bind_record_line_proxied(line, origin, dttl) ==
    LET parts == SplitWhitespace(line)
    IN  IF TooFewParts(parts) THEN [panic |-> FALSE, value |-> None]
        ELSE IF Len(parts) = 0 THEN [panic |-> TRUE, value |-> None]
        ELSE
        LET name == At(parts, 0)
            t    == extract_ttl_and_advance(parts, 1, dttl)
        IN  IF t.panic THEN [panic |-> TRUE, value |-> None]
            ELSE
            LET rt == extract_record_type(parts, t.idx)
            IN  IF rt = None THEN [panic |-> FALSE, value |-> None]
                ELSE
                LET full_name == build_full_domain_name(name, origin)
                    c == parse_record_content(rt[1].record_type, parts, rt[1].idx)
                IN  IF c.panic THEN [panic |-> TRUE, value |-> None]
                    ELSE IF c.value = None THEN [panic |-> FALSE, value |-> None]
                    ELSE [panic |-> FALSE,
                          value |-> Some(CreateDnsRecord(rt[1].record_type, full_name,
                                                         c.value[1].content, Some(t.ttl),
                                                         Some(TRUE), c.value[1].priority))]

\* [panic, value: Option<CreateDnsRecord>]
parse_bind_record_line(line, origin, dttl) ==
    LET parts == SplitWhitespace(line)
    IN  IF TooFewParts(parts) THEN [panic |-> FALSE, value |-> None]
        ELSE IF Len(parts) = 0 THEN [panic |-> TRUE, value |-> None]
        ELSE
        LET name == At(parts, 0)
            t    == extract_ttl_and_advance(parts, 1, dttl)
        IN  IF t.panic THEN [panic |-> TRUE, value |-> None]
            ELSE
            LET rt == extract_record_type(parts, t.idx)
            IN  IF rt = None THEN [panic |-> FALSE, value |-> None]
                ELSE
                LET full_name == build_full_domain_name(name, origin)
                    c == parse_record_content(rt[1].record_type, parts, rt[1].idx)
                IN  IF c.panic THEN [panic |-> TRUE, value |-> None]
                    ELSE IF c.value = None THEN [panic |-> FALSE, value |-> None]
                    ELSE [panic |-> FALSE,
                          value |-> Some(CreateDnsRecord(rt[1].record_type, full_name,
                                                         c.value[1].content, Some(t.ttl),
                                                         Some(FALSE), c.value[1].priority))]

\* a new intent put in front of the collected ones
process_bind_line_prepending(line, recs, origin, dttl) ==
    LET d == process_bind_directive(line, origin, dttl)
        r == parse_bind_record_line(line, origin, dttl)
    IN  IF should_skip_line(line)
        THEN [panic |-> FALSE, records |-> recs, default_origin |-> origin,
              default_ttl |-> dttl]
        ELSE IF d.handled
        THEN [panic |-> FALSE, records |-> recs, default_origin |-> d.default_origin,
              default_ttl |-> d.default_ttl]
        ELSE [panic |-> r.panic,
              records |-> IF IsSome(r.value) THEN <<r.value[1]>> \o recs ELSE recs,
              default_origin |-> origin, default_ttl |-> dttl]

\* a per-record TTL that becomes the default of the following lines
process_bind_line_sticky_ttl(line, recs, origin, dttl) ==
    LET d == process_bind_directive(line, origin, dttl)
        r == parse_bind_record_line(line, origin, dttl)
    IN  IF should_skip_line(line)
        THEN [panic |-> FALSE, records |-> recs, default_origin |-> origin,
              default_ttl |-> dttl]
        ELSE IF d.handled
        THEN [panic |-> FALSE, records |-> recs, default_origin |-> d.default_origin,
              default_ttl |-> d.default_ttl]
        ELSE [panic |-> r.panic,
              records |-> IF IsSome(r.value) THEN Append(recs, r.value[1]) ELSE recs,
              default_origin |-> origin,
              default_ttl |-> IF IsSome(r.value) THEN r.value[1].ttl[1] ELSE dttl]

\* One iteration of the loop of parse_bind_format on the trimmed line:
\* [panic, records, default_origin, default_ttl]
process_bind_line(line, recs, origin, dttl) ==
    LET d == process_bind_directive(line, origin, dttl)
        r == parse_bind_record_line(line, origin, dttl)
    IN  IF should_skip_line(line)
        THEN [panic |-> FALSE, records |-> recs, default_origin |-> origin,
              default_ttl |-> dttl]
        ELSE IF d.handled
        THEN [panic |-> FALSE, records |-> recs, default_origin |-> d.default_origin,
              default_ttl |-> d.default_ttl]
        ELSE [panic |-> r.panic,
              records |-> IF IsSome(r.value) THEN Append(recs, r.value[1]) ELSE recs,
              default_origin |-> origin, default_ttl |-> dttl]

\* a detector that looks for the directives only
is_bind_format_directives_only(text) ==
    Contains(text, OriginDirective) \/ Contains(text, TtlDirective)

\* is_bind_format
is_bind_format(text) ==
    Contains(text, OriginDirective) \/ Contains(text, TtlDirective)
        \/ Contains(text, InMarker)


(***************************************************************************)
(* Tabular (CSV) parser.  csv::Reader with its defaults: the first record  *)
(* is the header, records are the non-empty lines, fields are split on     *)
(* ',', every record must have as many fields as the header; CsvRecord is  *)
(* deserialized by header name.  Quoted fields are outside the inputs.     *)
(***************************************************************************)
FieldType == <<"t", "y", "p", "e">>
FieldName == <<"n", "a", "m", "e">>
FieldContent == <<"c", "o", "n", "t", "e", "n", "t">>
FieldTtl == <<"t", "t", "l">>
FieldProxied == <<"p", "r", "o", "x", "i", "e", "d">>
FieldPriority == <<"p", "r", "i", "o", "r", "i", "t", "y">>
LitTrue == <<"t", "r", "u", "e">>
LitFalse == <<"f", "a", "l", "s", "e">>

\* the records csv::Reader yields, header included
CsvRecords(text) ==
    LET ls == SelectSeq(StrLines(text), LAMBDA l : l # <<>>)
    IN  [k \in 1..Len(ls) |-> Split(ls[k], ",")]

Columns(hdr, field) == {k \in 1..Len(hdr) : hdr[k] = field}
HasColumn(hdr, field) == Columns(hdr, field) # {}
FieldOf(hdr, row, field) == row[CHOOSE k \in Columns(hdr, field) : TRUE]

\* #[serde(default = "default_ttl")]
csv_default_ttl == 1

\* the optional columns defaulted to other values than the declared ones
deserialize_row_other_defaults(hdr, row) ==
    LET known == {FieldType, FieldName, FieldContent, FieldTtl, FieldProxied, FieldPriority}
        ttl  == IF HasColumn(hdr, FieldTtl) THEN ParseU32(FieldOf(hdr, row, FieldTtl))
                ELSE Some(0)
        prox == IF ~HasColumn(hdr, FieldProxied) THEN Some(TRUE)
                ELSE IF FieldOf(hdr, row, FieldProxied) = LitTrue THEN Some(TRUE)
                ELSE IF FieldOf(hdr, row, FieldProxied) = LitFalse THEN Some(FALSE)
                ELSE None
        prioOk == ~HasColumn(hdr, FieldPriority)
                    \/ FieldOf(hdr, row, FieldPriority) = <<>>
                    \/ IsSome(ParseU16(FieldOf(hdr, row, FieldPriority)))
        prio == IF ~HasColumn(hdr, FieldPriority) THEN None
                ELSE IF FieldOf(hdr, row, FieldPriority) = <<>> THEN None
                ELSE ParseU16(FieldOf(hdr, row, FieldPriority))
        bad  == [ok |-> FALSE, value |-> None]
    IN  IF Len(row) # Len(hdr) THEN bad
        ELSE IF \E f \in known : Cardinality(Columns(hdr, f)) > 1 THEN bad
        ELSE IF \E f \in {FieldType, FieldName, FieldContent} : ~HasColumn(hdr, f) THEN bad
        ELSE IF ttl = None \/ prox = None \/ ~prioOk THEN bad
        ELSE [ok |-> TRUE,
              value |-> Some([type |-> FieldOf(hdr, row, FieldType),
                              name |-> FieldOf(hdr, row, FieldName),
                              content |-> FieldOf(hdr, row, FieldContent),
                              ttl |-> ttl[1], proxied |-> prox[1], priority |-> prio])]

\* Deserialization of one record into CsvRecord: [ok, value]
deserialize_row(hdr, row) ==
    LET known == {FieldType, FieldName, FieldContent, FieldTtl, FieldProxied, FieldPriority}
        ttl  == IF HasColumn(hdr, FieldTtl) THEN ParseU32(FieldOf(hdr, row, FieldTtl))
                ELSE Some(csv_default_ttl)
        prox == IF ~HasColumn(hdr, FieldProxied) THEN Some(FALSE)
                ELSE IF FieldOf(hdr, row, FieldProxied) = LitTrue THEN Some(TRUE)
                ELSE IF FieldOf(hdr, row, FieldProxied) = LitFalse THEN Some(FALSE)
                ELSE None
        prioOk == ~HasColumn(hdr, FieldPriority)
                    \/ FieldOf(hdr, row, FieldPriority) = <<>>
                    \/ IsSome(ParseU16(FieldOf(hdr, row, FieldPriority)))
        prio == IF ~HasColumn(hdr, FieldPriority) THEN None
                ELSE IF FieldOf(hdr, row, FieldPriority) = <<>> THEN None
                ELSE ParseU16(FieldOf(hdr, row, FieldPriority))
        bad  == [ok |-> FALSE, value |-> None]
    IN  IF Len(row) # Len(hdr) THEN bad
        ELSE IF \E f \in known : Cardinality(Columns(hdr, f)) > 1 THEN bad
        ELSE IF \E f \in {FieldType, FieldName, FieldContent} : ~HasColumn(hdr, f) THEN bad
        ELSE IF ttl = None \/ prox = None \/ ~prioOk THEN bad
        ELSE [ok |-> TRUE,
              value |-> Some([type |-> FieldOf(hdr, row, FieldType),
                              name |-> FieldOf(hdr, row, FieldName),
                              content |-> FieldOf(hdr, row, FieldContent),
                              ttl |-> ttl[1], proxied |-> prox[1], priority |-> prio])]

\* a bad row that is skipped
csv_row_step_skipping(recs, hdr, row) ==
    LET d == deserialize_row(hdr, row)
    IN  IF ~d.ok THEN [ok |-> TRUE, records |-> recs]
        ELSE [ok |-> TRUE,
              records |-> Append(recs,
                  CreateDnsRecord(d.value[1].type, d.value[1].name, d.value[1].content,
                                  Some(d.value[1].ttl), Some(d.value[1].proxied),
                                  d.value[1].priority))]

\* rows collected in reverse
csv_row_step_prepending(recs, hdr, row) ==
    LET d == deserialize_row(hdr, row)
    IN  IF ~d.ok THEN [ok |-> FALSE, records |-> <<>>]
        ELSE [ok |-> TRUE,
              records |-> <<CreateDnsRecord(d.value[1].type, d.value[1].name,
                                            d.value[1].content, Some(d.value[1].ttl),
                                            Some(d.value[1].proxied),
                                            d.value[1].priority)>> \o recs]

\* One iteration of the loop of parse_csv_format: [ok, records]
csv_row_step(recs, hdr, row) ==
    LET d == deserialize_row(hdr, row)
    IN  IF ~d.ok THEN [ok |-> FALSE, records |-> <<>>]
        ELSE [ok |-> TRUE,
              records |-> Append(recs,
                  CreateDnsRecord(d.value[1].type, d.value[1].name, d.value[1].content,
                                  Some(d.value[1].ttl), Some(d.value[1].proxied),
                                  d.value[1].priority))]

(***************************************************************************)
(* Input files.                                                            *)
(***************************************************************************)
\*   1   ''
\*   2   ';w IN A 1.2'
\*   3   '$ORIGIN e.c.'
\*   4   '$ORIGIN'
\*   5   '$TTL 60'
\*   6   '$TTL x'
\*   7   '$TTL'
\*   8   'w IN A 1.2'
\*   9   '@ IN MX 5 m.e.'
\*   10  '@ IN MX x m'
\*   11  '@ IN TXT "v  s"'
\*   12  'm 30 IN AAAA ::3'
\*   13  'w A 1.2'
\*   14  's IN SRV 1 2'
\*   15  '. IN A 1.2'
\*   16  'f. IN cname t.'
\*   17  'a 30 IN TXT'
\*   18  'a 30 IN MX 5'
\*   19  'x 4294967296 IN A 1.2'
\*   20  ' w  NS\tn. 9 '
\*   21  '$ORIGIN e.c..'
\*   22  '@ IN MX 65536 m'
\*   23  ' \t'
BindLines ==
    {<<>>,
     <<";", "w", " ", "I", "N", " ", "A", " ", "1", ".", "2">>,
     <<"$", "O", "R", "I", "G", "I", "N", " ", "e", ".", "c", ".">>,
     <<"$", "O", "R", "I", "G", "I", "N">>,
     <<"$", "T", "T", "L", " ", "6", "0">>,
     <<"$", "T", "T", "L", " ", "x">>,
     <<"$", "T", "T", "L">>,
     <<"w", " ", "I", "N", " ", "A", " ", "1", ".", "2">>,
     <<"@", " ", "I", "N", " ", "M", "X", " ", "5", " ", "m", ".", "e", ".">>,
     <<"@", " ", "I", "N", " ", "M", "X", " ", "x", " ", "m">>,
     <<"@", " ", "I", "N", " ", "T", "X", "T", " ", "\"", "v", " ", " ", "s", "\"">>,
     <<"m", " ", "3", "0", " ", "I", "N", " ", "A", "A", "A", "A", " ", ":", ":", "3">>,
     <<"w", " ", "A", " ", "1", ".", "2">>,
     <<"s", " ", "I", "N", " ", "S", "R", "V", " ", "1", " ", "2">>,
     <<".", " ", "I", "N", " ", "A", " ", "1", ".", "2">>,
     <<"f", ".", " ", "I", "N", " ", "c", "n", "a", "m", "e", " ", "t", ".">>,
     <<"a", " ", "3", "0", " ", "I", "N", " ", "T", "X", "T">>,
     <<"a", " ", "3", "0", " ", "I", "N", " ", "M", "X", " ", "5">>,
     <<"x", " ", "4", "2", "9", "4", "9", "6", "7", "2", "9", "6", " ", "I", "N", " ", "A", " ", "1", ".", "2">>,
     <<" ", "w", " ", " ", "N", "S", "\t", "n", ".", " ", "9", " ">>,
     <<"$", "O", "R", "I", "G", "I", "N", " ", "e", ".", "c", ".", ".">>,
     <<"@", " ", "I", "N", " ", "M", "X", " ", "6", "5", "5", "3", "6", " ", "m">>,
     <<" ", "\t">>}

\*   1   'type,name,content'
\*   2   'type,name,content,ttl,proxied,priority'
\*   3   'A,w,1.2'
CsvHeaders ==
    {<<"t", "y", "p", "e", ",", "n", "a", "m", "e", ",", "c", "o", "n", "t", "e", "n", "t">>,
     <<"t", "y", "p", "e", ",", "n", "a", "m", "e", ",", "c", "o", "n", "t", "e", "n", "t", ",", "t", "t", "l", ",", "p", "r", "o", "x", "i", "e", "d", ",", "p", "r", "i", "o", "r", "i", "t", "y">>,
     <<"A", ",", "w", ",", "1", ".", "2">>}

\*   1   'A,w,1.2'
\*   2   'CNAME,b,w.e'
\*   3   'A,w,1.2,60,true,'
\*   4   'MX,@,m.e,60,false,5'
\*   5   'A,w,1.2,60,false,5'
\*   6   'A,,1.2'
\*   7   'A,w,1.2,x,false,'
\*   8   'A,w,1.2,60,false,x'
\*   9   'A,w'
\*   10  'TXT,t,a IN b'
\*   11  ''
CsvRows ==
    {<<"A", ",", "w", ",", "1", ".", "2">>,
     <<"C", "N", "A", "M", "E", ",", "b", ",", "w", ".", "e">>,
     <<"A", ",", "w", ",", "1", ".", "2", ",", "6", "0", ",", "t", "r", "u", "e", ",">>,
     <<"M", "X", ",", "@", ",", "m", ".", "e", ",", "6", "0", ",", "f", "a", "l", "s", "e", ",", "5">>,
     <<"A", ",", "w", ",", "1", ".", "2", ",", "6", "0", ",", "f", "a", "l", "s", "e", ",", "5">>,
     <<"A", ",", ",", "1", ".", "2">>,
     <<"A", ",", "w", ",", "1", ".", "2", ",", "x", ",", "f", "a", "l", "s", "e", ",">>,
     <<"A", ",", "w", ",", "1", ".", "2", ",", "6", "0", ",", "f", "a", "l", "s", "e", ",", "x">>,
     <<"A", ",", "w">>,
     <<"T", "X", "T", ",", "t", ",", "a", " ", "I", "N", " ", "b">>,
     <<>>}

SeqsUpTo(S, n) == UNION {[1..k -> S] : k \in 0..n}

BindFiles == {JoinWith(ls, <<"\n">>) : ls \in SeqsUpTo(BindLines, MaxBindLines)}
CsvFiles ==
    {JoinWith(<<h>> \o rs, <<"\n">>) : h \in CsvHeaders, rs \in SeqsUpTo(CsvRows, MaxCsvRows)}
\* two record lines with one line that yields nothing between them
RecordLines ==
    {<<"w", " ", "I", "N", " ", "A", " ", "1", ".", "2">>,
     <<"@", " ", "I", "N", " ", "M", "X", " ", "5", " ", "m", ".", "e", ".">>}
SilentLines ==
    {<<>>,
     <<";", "w", " ", "I", "N", " ", "A", " ", "1", ".", "2">>,
     <<"$", "O", "R", "I", "G", "I", "N", " ", "e", ".", "c", ".">>,
     <<"$", "T", "T", "L", " ", "6", "0">>,
     <<"w", " ", "A", " ", "1", ".", "2">>,
     <<"s", " ", "I", "N", " ", "S", "R", "V", " ", "1", " ", "2">>}
InterleavedFiles ==
    {JoinWith(<<a, x, b>>, <<"\n">>) : a \in RecordLines, x \in SilentLines, b \in RecordLines}
\* a TTL directive, then a TTL directive whose value does not parse, then a
\* record line
FailingTtlDirectives ==
    {<<"$", "T", "T", "L">>,
     <<"$", "T", "T", "L", " ", "x">>,
     <<"$", "T", "T", "L", " ", "4", "2", "9", "4", "9", "6", "7", "2", "9", "6">>}
DirectiveFiles ==
    {JoinWith(<<<<"$", "T", "T", "L", " ", "6", "0">>, d, <<"w", " ", "I", "N", " ", "A", " ", "1", ".", "2">>>>, <<"\n">>) :
        d \in FailingTtlDirectives}
Files == BindFiles \cup CsvFiles \cup InterleavedFiles \cup DirectiveFiles

(***************************************************************************)
(* Results.                                                                *)
(***************************************************************************)
ZeroStats == [success |-> 0, failed |-> 0, total |-> 0]
NoParse == [kind |-> "none", value |-> <<>>, error |-> ""]
ParseOk(recs) == [kind |-> "Ok", value |-> recs, error |-> ""]
ParseErr(e) == [kind |-> "Err", value |-> <<>>, error |-> e]
NoResult == [kind |-> "none", value |-> ZeroStats, error |-> ""]
ResultOk(st) == [kind |-> "Ok", value |-> st, error |-> ""]
ResultErr(e) == [kind |-> "Err", value |-> ZeroStats, error |-> e]

(***************************************************************************)
(* Batch import executor.                                                  *)
(***************************************************************************)
\* ImportStats { total: records.len(), ..Default::default() }
new_stats(recs) == [success |-> 0, failed |-> 0, total |-> Len(recs)]

\* a failure that is not counted
import_single_record_uncounted(st, outcome) ==
    IF outcome = "ok" THEN [st EXCEPT !.success = st.success + 1] ELSE st

\* the match of import_single_record on the outcome of create_record
import_single_record(st, outcome) ==
    IF outcome = "ok"
    THEN [st EXCEPT !.success = st.success + 1]
    ELSE [st EXCEPT !.failed = st.failed + 1]

\* a loop that stops at the first failure
batch_has_next_until_failure(recs, st, outs) ==
    Len(outs) < Len(recs) /\ st.failed = 0

\* the for loop of import_records_batch has another item to hand out:
\* done items are those whose outcome was counted
batch_has_next(recs, st, outs) == Len(outs) < Len(recs)

\* a parse error that is swallowed
parse_error_ignored(p) == FALSE

\* `?` of import_records on the value of detect_and_parse_format
parse_error_returns(p) == p.kind = "Err"

(***************************************************************************)
(* retry_with_backoff (src/src/client/retry.rs).                           *)
(*                                                                         *)
(* A Duration is a whole number of units of 50 ms and a multiplier is an   *)
(* integer, so that delay.as_secs_f64() * multiplier is computed exactly;  *)
(* the rounding of Duration::from_secs_f64 to a nanosecond lies below the  *)
(* unit.  A negative product makes Duration::from_secs_f64 panic.          *)
(***************************************************************************)
MaxAttempts == 5
MaxDelayUnits == 3

Multipliers == {-1, 0, 1, 2}

\* RetryConfig: the fields are public, every value of their types can be given
RetryConfig ==
    [max_attempts : 0..MaxAttempts,
     initial_delay : 0..MaxDelayUnits,
     max_delay : 0..MaxDelayUnits,
     multiplier : Multipliers]

\* a placeholder for `config` while no call is running
NoConfig == [max_attempts |-> 0, initial_delay |-> 0, max_delay |-> 0, multiplier |-> 0]

\* CfadError variants an operation fails with
ErrorKinds == {"Network", "RateLimit", "Timeout", "Auth"}

\* an error classification under which every error is retried
is_retryable_any_error(e) == e \in ErrorKinds

\* CfadError::is_retryable
is_retryable(e) == e \in {"Network", "RateLimit", "Timeout"}

\* Result<T> of the operation and of retry_with_backoff
NoRetryResult == [kind |-> "none", error |-> ""]
Ok == [kind |-> "Ok", error |-> ""]
Err(e) == [kind |-> "Err", error |-> e]
OperationResults == {Ok} \cup {Err(e) : e \in ErrorKinds}

\* the guard of the second match arm: the error is returned, not retried
gives_up(r, att, cfg) == att >= cfg.max_attempts \/ ~is_retryable(r.error)

\* std::cmp::min on Duration
min(a, b) == IF a <= b THEN a ELSE b

\* Duration::from_secs_f64 panics on a negative number of seconds
from_secs_f64_panics(secs) == secs < 0

\* the delay after a sleep
next_delay(d, cfg) == min(d * cfg.multiplier, cfg.max_delay)

\* no retry_with_backoff call is running
RetryIdle ==
    /\ retry_pc = "idle"
    /\ config = NoConfig
    /\ attempt = 0
    /\ delay = 0
    /\ invocations = 0
    /\ operation_results = <<>>
    /\ waits = <<>>
    /\ retry_result = NoRetryResult

(***************************************************************************)
(* State machine.                                                          *)
(***************************************************************************)
Init ==
    /\ pc = "start"
    /\ entry = "none"
    /\ contents = <<>>
    /\ format = "none"
    /\ lines = <<>>
    /\ headers = None
    /\ records = <<>>
    /\ default_origin = <<>>
    /\ default_ttl = 1
    /\ parsed = NoParse
    /\ stats = ZeroStats
    /\ calls = <<>>
    /\ outcomes = <<>>
    /\ inflight = 0
    /\ result = NoResult
    /\ RetryIdle

batchVars == <<stats, calls, outcomes, inflight, result>>

\* parse_bind_format: the locals before the loop
BindBegin(text) ==
    /\ lines' = StrLines(text)
    /\ records' = <<>>
    /\ default_origin' = <<>>
    /\ default_ttl' = 1
    /\ pc' = "bind_loop"
    /\ format' = "bind"
    /\ UNCHANGED headers

\* parse_csv_format: the reader and the locals before the loop
CsvBegin(text) ==
    /\ lines' = CsvRecords(text)
    /\ headers' = None
    /\ records' = <<>>
    /\ pc' = "csv_loop"
    /\ format' = "csv"
    /\ UNCHANGED <<default_origin, default_ttl>>

\* import_records: std::fs::read_to_string succeeds
ReadFile ==
    /\ pc = "start"
    /\ \E text \in Files : contents' = text
    /\ entry' = "import_records"
    /\ pc' = "detect"
    /\ UNCHANGED <<format, lines, headers, records, default_origin, default_ttl, parsed>>
    /\ UNCHANGED batchVars
    /\ UNCHANGED retryVars

\* import_records: std::fs::read_to_string fails, `?` returns the error
ReadFileFails ==
    /\ pc = "start"
    /\ entry' = "import_records"
    /\ result' = ResultErr("io")
    /\ pc' = "done"
    /\ UNCHANGED <<contents, format, lines, headers, records, default_origin, default_ttl, parsed>>
    /\ UNCHANGED <<stats, calls, outcomes, inflight>>
    /\ UNCHANGED retryVars

\* detect_and_parse_format: the branch on is_bind_format
DetectFormat ==
    /\ pc = "detect"
    /\ IF is_bind_format(contents) THEN BindBegin(contents) ELSE CsvBegin(contents)
    /\ UNCHANGED <<entry, contents, parsed>>
    /\ UNCHANGED batchVars
    /\ UNCHANGED retryVars

\* parse_bind_format called on its own (as the unit tests do)
CallParseBind ==
    /\ pc = "start"
    /\ \E text \in Files : contents' = text /\ BindBegin(text)
    /\ entry' = "parse_bind_format"
    /\ UNCHANGED parsed
    /\ UNCHANGED batchVars
    /\ UNCHANGED retryVars

\* parse_csv_format called on its own (as the unit tests do)
CallParseCsv ==
    /\ pc = "start"
    /\ \E text \in Files : contents' = text /\ CsvBegin(text)
    /\ entry' = "parse_csv_format"
    /\ UNCHANGED parsed
    /\ UNCHANGED batchVars
    /\ UNCHANGED retryVars

\* where a parser returns to
AfterParser == IF entry = "import_records" THEN "parse_returned" ELSE "done"

\* parse_bind_format: one iteration of `for line in contents.lines()`
ProcessBindLine ==
    /\ pc = "bind_loop"
    /\ lines # <<>>
    /\ LET r == process_bind_line(Trim(Head(lines)), records, default_origin, default_ttl)
       IN  /\ records' = r.records
           /\ default_origin' = r.default_origin
           /\ default_ttl' = r.default_ttl
           /\ pc' = IF r.panic THEN "panicked" ELSE "bind_loop"
    /\ lines' = Tail(lines)
    /\ UNCHANGED <<entry, contents, format, headers, parsed>>
    /\ UNCHANGED batchVars
    /\ UNCHANGED retryVars

\* parse_bind_format: Ok(records)
ParseBindReturn ==
    /\ pc = "bind_loop"
    /\ lines = <<>>
    /\ parsed' = ParseOk(records)
    /\ pc' = AfterParser
    /\ UNCHANGED <<entry, contents, format, lines, headers, records, default_origin, default_ttl>>
    /\ UNCHANGED batchVars
    /\ UNCHANGED retryVars

\* a reader without a header row: the columns are implied and the first
\* record stays a data row
CsvReadHeadersImplied ==
    /\ pc = "csv_loop"
    /\ headers = None
    /\ lines # <<>>
    /\ headers' = Some(<<FieldType, FieldName, FieldContent>>)
    /\ UNCHANGED <<pc, entry, contents, format, lines, records, default_origin, default_ttl,
                   parsed>>
    /\ UNCHANGED batchVars
    /\ UNCHANGED retryVars

\* csv::Reader: the first record read is kept as the header
CsvReadHeaders ==
    /\ pc = "csv_loop"
    /\ headers = None
    /\ lines # <<>>
    /\ headers' = Some(Head(lines))
    /\ lines' = Tail(lines)
    /\ UNCHANGED <<pc, entry, contents, format, records, default_origin, default_ttl, parsed>>
    /\ UNCHANGED batchVars
    /\ UNCHANGED retryVars

\* parse_csv_format: one iteration of `for result in reader.deserialize()`
CsvDeserializeRow ==
    /\ pc = "csv_loop"
    /\ headers # None
    /\ lines # <<>>
    /\ LET r == csv_row_step(records, headers[1], Head(lines))
       IN  /\ records' = r.records
           /\ IF r.ok
              THEN UNCHANGED <<pc, parsed>>
              ELSE parsed' = ParseErr("validation") /\ pc' = AfterParser
    /\ lines' = Tail(lines)
    /\ UNCHANGED <<entry, contents, format, headers, default_origin, default_ttl>>
    /\ UNCHANGED batchVars
    /\ UNCHANGED retryVars

\* a parse that rejects an input without data rows
ParseCsvReturnRejectingEmpty ==
    /\ pc = "csv_loop"
    /\ lines = <<>>
    /\ parsed' = IF records = <<>> THEN ParseErr("validation") ELSE ParseOk(records)
    /\ pc' = AfterParser
    /\ UNCHANGED <<entry, contents, format, lines, headers, records, default_origin, default_ttl>>
    /\ UNCHANGED batchVars
    /\ UNCHANGED retryVars

\* parse_csv_format: Ok(records)
ParseCsvReturn ==
    /\ pc = "csv_loop"
    /\ lines = <<>>
    /\ parsed' = ParseOk(records)
    /\ pc' = AfterParser
    /\ UNCHANGED <<entry, contents, format, lines, headers, records, default_origin, default_ttl>>
    /\ UNCHANGED batchVars
    /\ UNCHANGED retryVars

\* import_records: `detect_and_parse_format(&contents)?`, then the head of
\* import_records_batch
BatchStart ==
    /\ pc = "parse_returned"
    /\ IF parse_error_returns(parsed)
       THEN /\ result' = ResultErr(parsed.error)
            /\ pc' = "done"
            /\ UNCHANGED stats
       ELSE /\ stats' = new_stats(records)
            /\ pc' = "batch_loop"
            /\ UNCHANGED result
    /\ UNCHANGED <<entry, contents, format, lines, headers, records, default_origin, default_ttl,
                   parsed, calls, outcomes, inflight>>
    /\ UNCHANGED retryVars

\* calls started without awaiting the previous one
CreateCallNoAwait ==
    /\ pc = "batch_loop"
    /\ batch_has_next(records, stats, outcomes)
    /\ calls' = Append(calls, records[Len(outcomes) + 1])
    /\ inflight' = inflight + 1
    /\ UNCHANGED <<pc, entry, contents, format, lines, headers, records, default_origin,
                   default_ttl, parsed, stats, outcomes, result>>
    /\ UNCHANGED retryVars

\* import_single_record: create_record is called with the next item
CreateCall ==
    /\ pc = "batch_loop"
    /\ inflight = 0
    /\ batch_has_next(records, stats, outcomes)
    /\ calls' = Append(calls, records[Len(outcomes) + 1])
    /\ inflight' = 1
    /\ UNCHANGED <<pc, entry, contents, format, lines, headers, records, default_origin,
                   default_ttl, parsed, stats, outcomes, result>>
    /\ UNCHANGED retryVars

\* import_single_record: create_record returns and the outcome is counted
CreateReturns ==
    /\ pc = "batch_loop"
    /\ inflight = 1
    /\ \E outcome \in {"ok", "err"} :
          /\ stats' = import_single_record(stats, outcome)
          /\ outcomes' = Append(outcomes, outcome)
    /\ inflight' = 0
    /\ UNCHANGED <<pc, entry, contents, format, lines, headers, records, default_origin,
                   default_ttl, parsed, calls, result>>
    /\ UNCHANGED retryVars

\* a batch that reports a failed item as an error of the whole call
BatchReturnFailing ==
    /\ pc = "batch_loop"
    /\ inflight = 0
    /\ ~batch_has_next(records, stats, outcomes)
    /\ result' = IF stats.failed > 0 THEN ResultErr("api") ELSE ResultOk(stats)
    /\ pc' = "done"
    /\ UNCHANGED <<entry, contents, format, lines, headers, records, default_origin,
                   default_ttl, parsed, stats, calls, outcomes, inflight>>
    /\ UNCHANGED retryVars

\* import_records_batch: Ok(stats); import_records: Ok(stats)
BatchReturn ==
    /\ pc = "batch_loop"
    /\ inflight = 0
    /\ ~batch_has_next(records, stats, outcomes)
    /\ result' = ResultOk(stats)
    /\ pc' = "done"
    /\ UNCHANGED <<entry, contents, format, lines, headers, records, default_origin,
                   default_ttl, parsed, stats, calls, outcomes, inflight>>
    /\ UNCHANGED retryVars

Next ==
    \/ ReadFile
    \/ ReadFileFails
    \/ DetectFormat
    \/ CallParseBind
    \/ CallParseCsv
    \/ ProcessBindLine
    \/ ParseBindReturn
    \/ CsvReadHeaders
    \/ CsvDeserializeRow
    \/ ParseCsvReturn
    \/ BatchStart
    \/ CreateCall
    \/ CreateReturns
    \/ BatchReturn

Spec == Init /\ [][Next]_vars

(***************************************************************************)
(* State machine of one retry_with_backoff call.                           *)
(***************************************************************************)
\* retry_with_backoff is called: the locals before the loop
RetryCall ==
    /\ retry_pc = "idle"
    /\ \E cfg \in RetryConfig :
          /\ config' = cfg
          /\ delay' = cfg.initial_delay
    /\ attempt' = 1
    /\ retry_pc' = "loop"
    /\ UNCHANGED <<invocations, operation_results, waits, retry_result>>
    /\ UNCHANGED importVars

\* loop: operation() is invoked and awaited
InvokeOperation ==
    /\ retry_pc = "loop"
    /\ invocations' = invocations + 1
    /\ retry_pc' = "awaiting"
    /\ UNCHANGED <<config, attempt, delay, operation_results, waits, retry_result>>
    /\ UNCHANGED importVars

\* the operation returns and the match picks its arm
OperationReturns ==
    /\ retry_pc = "awaiting"
    /\ \E r \in OperationResults :
          /\ operation_results' = Append(operation_results, r)
          /\ IF r.kind = "Ok" \/ gives_up(r, attempt, config)
             THEN /\ retry_result' = r
                  /\ retry_pc' = "returned"
             ELSE /\ retry_pc' = "sleep"
                  /\ UNCHANGED retry_result
    /\ UNCHANGED <<config, attempt, delay, invocations, waits>>
    /\ UNCHANGED importVars

\* third match arm: sleep(delay), attempt += 1, the next delay
SleepAndBackOff ==
    /\ retry_pc = "sleep"
    /\ waits' = Append(waits, delay)
    /\ attempt' = attempt + 1
    /\ IF from_secs_f64_panics(delay * config.multiplier)
       THEN /\ retry_pc' = "panicked"
            /\ UNCHANGED delay
       ELSE /\ retry_pc' = "loop"
            /\ delay' = next_delay(delay, config)
    /\ UNCHANGED <<config, invocations, operation_results, retry_result>>
    /\ UNCHANGED importVars

RetryInit == Init

RetryNext ==
    \/ RetryCall
    \/ InvokeOperation
    \/ OperationReturns
    \/ SleepAndBackOff

RetrySpec == RetryInit /\ [][RetryNext]_vars

(***************************************************************************)
(* Properties.                                                             *)
(***************************************************************************)
ImportCall == entry = "import_records"
Returned == pc = "done"
\* the state in which a parser has just returned to its caller
ParserReturned == pc = "parse_returned" \/ (pc = "done" /\ entry # "import_records")
\* the parser that ran on `contents`
RanBind == format = "bind"
RanCsv == format = "csv"
CountOf(seq, x) == Cardinality({k \in 1..Len(seq) : seq[k] = x})
IsPrefix(a, b) == Len(a) <= Len(b) /\ a = SubSeq(b, 1, Len(a))

\* C1: when import_records_batch returns, success + failed = total and total
\* is the length of the intent sequence; total has that value from the head of
\* the batch, before the first creation call, and keeps it.
C1_StatsAddUp ==
    /\ pc = "batch_loop" => stats.total = Len(parsed.value)
    /\ (ImportCall /\ Returned /\ result.kind = "Ok") =>
          /\ result.value.total = Len(parsed.value)
          /\ result.value.success + result.value.failed = result.value.total

C1_Witness ==
    /\ ImportCall /\ Returned /\ result.kind = "Ok"
    /\ result.value = [success |-> 1, failed |-> 1, total |-> 2]

\* C2: a failed creation call never prevents the call for a later item: after
\* any outcomes the next item's call is enabled and the batch cannot return
\* early; at the return every intent has been attempted, each failure counted
\* once in failed.
C2_FailureDoesNotShortCircuit ==
    /\ (pc = "batch_loop" /\ inflight = 0 /\ Len(outcomes) < Len(records)) =>
          ENABLED CreateCall /\ ~ENABLED BatchReturn
    /\ (ImportCall /\ Returned /\ result.kind = "Ok") =>
          /\ Len(outcomes) = Len(parsed.value)
          /\ result.value.failed = CountOf(outcomes, "err")
          /\ result.value.success = CountOf(outcomes, "ok")

C2_Witness ==
    /\ ImportCall /\ Returned
    /\ outcomes = <<"err", "ok">>
    /\ Len(calls) = 2

\* C3: create_record is called once per intent, in parser order, and a call
\* starts only after the previous outcome was counted: the calls made so far
\* are a prefix of the intents, one more than the counted outcomes exactly
\* while a call is in flight, and never two in flight.
C3_SequentialOncePerIntent ==
    /\ inflight \in {0, 1}
    /\ Len(calls) = Len(outcomes) + inflight
    /\ Len(outcomes) = stats.success + stats.failed
    /\ calls # <<>> => IsPrefix(calls, parsed.value)
    /\ (ImportCall /\ Returned /\ result.kind = "Ok") => calls = parsed.value

C3_Witness ==
    /\ pc = "batch_loop"
    /\ inflight = 1
    /\ Len(calls) = 2
    /\ outcomes = <<"err">>
    /\ calls[1] # calls[2]

\* C4 as stated: import_records returns an error only if the file cannot be
\* read.
C4_ErrorOnlyFromRead ==
    (ImportCall /\ Returned /\ result.kind = "Err") => result.error = "io"

\* C4 amended: import_records returns an error only if the file cannot be read
\* or the tabular parser rejects the input; once parsing has succeeded the call
\* goes on to return Ok with the statistics, also when every creation call
\* fails (success = 0, failed = total).
C4_ErrorOnlyFromReadOrParse ==
    /\ (ImportCall /\ Returned /\ result.kind = "Err") =>
          \/ result.error = "io" /\ parsed.kind = "none"
          \/ result.error = "validation" /\ parsed.kind = "Err" /\ RanCsv
    /\ (ImportCall /\ parsed.kind = "Ok") =>
          /\ ~Returned => ENABLED Next
          /\ Returned =>
                /\ result = ResultOk(stats)
                /\ CountOf(outcomes, "ok") = 0 =>
                      stats.success = 0 /\ stats.failed = stats.total

C4_Witness ==
    /\ ImportCall /\ Returned /\ parsed.kind = "Ok"
    /\ result = ResultOk([success |-> 0, failed |-> 2, total |-> 2])


\* the header and the data rows of a tabular text
HeaderOf(text) == CsvRecords(text)[1]
DataRows(text) == LET recs == CsvRecords(text) IN IF recs = <<>> THEN <<>> ELSE Tail(recs)
\* the zone-file lines of a text, trimmed
BindLinesOf(text) == LET ls == StrLines(text) IN [k \in 1..Len(ls) |-> Trim(ls[k])]
HasNonDigit(f) == \E k \in 1..Len(f) : ~IsDigit(f[k]) /\ f[k] # "+"
\* a data row with the wrong number of columns, a non-numeric ttl or a
\* non-numeric priority
RowMalformed(hdr, row) ==
    \/ Len(row) # Len(hdr)
    \/ /\ Len(row) = Len(hdr)
       /\ \/ HasColumn(hdr, FieldTtl) /\ HasNonDigit(FieldOf(hdr, row, FieldTtl))
          \/ HasColumn(hdr, FieldPriority) /\ HasNonDigit(FieldOf(hdr, row, FieldPriority))

\* C5: when the tabular parser rejects the input, import_records returns the
\* validation error and no create_record call was made; no call is made before
\* the parser has consumed the whole file and returned Ok.
C5_ParseBeforeAnyCall ==
    ImportCall =>
        /\ parsed.kind # "Ok" => calls = <<>> /\ inflight = 0
        /\ calls # <<>> => lines = <<>>
        /\ parsed.kind = "Err" =>
              /\ RanCsv
              /\ pc \in {"parse_returned", "done"}
              /\ Returned => result = ResultErr("validation")

C5_Witness ==
    /\ ImportCall /\ Returned
    /\ result = ResultErr("validation")
    /\ calls = <<>>
    /\ Len(DataRows(contents)) = 2
    /\ deserialize_row(HeaderOf(contents), DataRows(contents)[1]).ok
    /\ ~deserialize_row(HeaderOf(contents), DataRows(contents)[2]).ok

\* C6: the tabular parser never skips a bad row: the loop never goes on past
\* a malformed data row, and if any data row is malformed the call returns the
\* validation error with no intent, whatever valid rows precede it.
C6_BadRowFailsWholeParse ==
    RanCsv =>
        LET hdr  == HeaderOf(contents)
            rows == DataRows(contents)
        IN  /\ (pc = "csv_loop" /\ headers # None) =>
                  \A k \in 1..(Len(rows) - Len(lines)) : ~RowMalformed(hdr, rows[k])
            /\ (parsed.kind # "none"
                  /\ \E k \in 1..Len(rows) : RowMalformed(hdr, rows[k])) =>
                  parsed.kind = "Err" /\ parsed.error = "validation" /\ parsed.value = <<>>

C6_Witness ==
    /\ entry = "parse_csv_format" /\ Returned
    /\ parsed.kind = "Err"
    /\ Len(DataRows(contents)) = 2
    /\ deserialize_row(HeaderOf(contents), DataRows(contents)[1]).ok
    /\ RowMalformed(HeaderOf(contents), DataRows(contents)[2])

\* C7: the zone-file parser has no failure path: it never panics on a token
\* index, it returns Ok for every input, and every line adds zero or one
\* intent to the output.
C7_BindParserTotal ==
    /\ [](pc # "panicked" /\ ((RanBind /\ parsed.kind # "none") => parsed.kind = "Ok"))
    /\ [][(pc = "bind_loop" /\ lines' # lines) =>
              \/ records' = records
              \/ Len(records') = Len(records) + 1 /\ IsPrefix(records, records')]_vars

C7_Witness ==
    /\ entry = "parse_bind_format" /\ Returned
    /\ parsed.kind = "Ok"
    /\ Len(parsed.value) = 1
    /\ parsed.value[1].record_type = TypeTXT /\ parsed.value[1].content = <<>>
    /\ \E k \in 1..Len(BindLinesOf(contents)) :
          Len(SplitWhitespace(BindLinesOf(contents)[k])) = 3

PriorityOnlyForMX(recs) ==
    \A k \in 1..Len(recs) : IsSome(recs[k].priority) => recs[k].record_type = TypeMX

\* C8 as stated: every intent of either parser has priority present only if
\* its record_type is MX.
C8_PriorityOnlyForMX == parsed.kind = "Ok" => PriorityOnlyForMX(parsed.value)

\* C8 amended: every intent of the zone-file parser has priority present only
\* if its record_type is MX; an intent of the tabular parser has priority
\* present exactly when its row has a non-empty priority column, whatever its
\* type.
C8_PriorityByParser ==
    /\ (RanBind /\ parsed.kind = "Ok") => PriorityOnlyForMX(parsed.value)
    /\ (RanCsv /\ parsed.kind = "Ok") =>
          LET hdr  == HeaderOf(contents)
              rows == DataRows(contents)
          IN  \A k \in 1..Len(parsed.value) :
                  IsSome(parsed.value[k].priority) <=>
                      /\ HasColumn(hdr, FieldPriority)
                      /\ FieldOf(hdr, rows[k], FieldPriority) # <<>>

C8_Witness ==
    /\ RanBind /\ parsed.kind = "Ok"
    /\ Len(parsed.value) = 2
    /\ parsed.value[1].record_type = TypeMX /\ parsed.value[1].priority = Some(5)
    /\ parsed.value[2].record_type = TypeA /\ parsed.value[2].priority = None

\* C9: every intent of either parser has a non-empty name.
C9_NameNonEmpty ==
    parsed.kind = "Ok" => \A k \in 1..Len(parsed.value) : parsed.value[k].name # <<>>

\* C10: on a successful tabular parse there is one intent per data row and the
\* k-th intent carries the type, name and content of the k-th data row; the
\* same holds of the rows consumed so far while the loop runs.
C10_OneIntentPerRowInOrder ==
    RanCsv =>
        LET hdr  == HeaderOf(contents)
            rows == DataRows(contents)
        IN  /\ (pc = "csv_loop" /\ headers # None) =>
                  Len(records) = Len(rows) - Len(lines)
            /\ parsed.kind = "Ok" =>
                  /\ Len(parsed.value) = Len(rows)
                  /\ \A k \in 1..Len(parsed.value) :
                        /\ parsed.value[k].record_type = FieldOf(hdr, rows[k], FieldType)
                        /\ parsed.value[k].name = FieldOf(hdr, rows[k], FieldName)
                        /\ parsed.value[k].content = FieldOf(hdr, rows[k], FieldContent)

C10_Witness ==
    /\ RanCsv /\ parsed.kind = "Ok"
    /\ Len(parsed.value) = 2
    /\ parsed.value[1].record_type # parsed.value[2].record_type
    /\ parsed.value[1].name # parsed.value[2].name

\* C11: on a successful tabular parse, an optional column that is absent from
\* the header gives every intent the declared default (ttl = 1, proxied =
\* false, priority absent); an optional column that is present gives the k-th
\* intent the value written in the k-th row.
C11_OptionalColumnDefaults ==
    (RanCsv /\ parsed.kind = "Ok") =>
        LET hdr  == HeaderOf(contents)
            rows == DataRows(contents)
        IN  \A k \in 1..Len(parsed.value) :
                LET rec == parsed.value[k]
                IN  /\ IF HasColumn(hdr, FieldTtl)
                       THEN rec.ttl = Some(DigitsValue(FieldOf(hdr, rows[k], FieldTtl), 0))
                       ELSE rec.ttl = Some(1)
                    /\ IF HasColumn(hdr, FieldProxied)
                       THEN rec.proxied = Some(FieldOf(hdr, rows[k], FieldProxied) = LitTrue)
                       ELSE rec.proxied = Some(FALSE)
                    /\ IF HasColumn(hdr, FieldPriority)
                             /\ FieldOf(hdr, rows[k], FieldPriority) # <<>>
                       THEN rec.priority =
                                Some(DigitsValue(FieldOf(hdr, rows[k], FieldPriority), 0))
                       ELSE rec.priority = None

C11_Witness ==
    /\ RanCsv /\ parsed.kind = "Ok"
    /\ Len(parsed.value) = 2
    /\ ~HasColumn(HeaderOf(contents), FieldTtl)
    /\ ~HasColumn(HeaderOf(contents), FieldProxied)
    /\ ~HasColumn(HeaderOf(contents), FieldPriority)
    /\ \A k \in 1..2 :
          /\ parsed.value[k].ttl = Some(1)
          /\ parsed.value[k].proxied = Some(FALSE)
          /\ parsed.value[k].priority = None

\* C12: for a tabular input that is empty or holds only the header row (no
\* non-empty line after the first), the tabular parser returns Ok with an
\* empty sequence of intents.
C12_EmptyOrHeaderOnlyIsOkEmpty ==
    (RanCsv /\ parsed.kind # "none" /\ Len(CsvRecords(contents)) <= 1) =>
        parsed = ParseOk(<<>>)

C12_Witness ==
    /\ entry = "parse_csv_format" /\ Returned
    /\ parsed = ParseOk(<<>>)
    /\ Len(CsvRecords(contents)) = 1
    /\ HasColumn(HeaderOf(contents), FieldType)

\* a tabular text whose first row has the fields of a data row (three or
\* more) and does not name the required columns
DataAsHeader(text) ==
    LET recs == CsvRecords(text)
    IN  /\ recs # <<>>
        /\ Len(recs[1]) >= 3
        /\ \E f \in {FieldType, FieldName, FieldContent} : ~HasColumn(recs[1], f)

\* C13 as stated: a tabular file whose first row is data is parsed to Ok with
\* an empty sequence, whatever number of data rows follow it.
C13_DataAsHeaderYieldsOkEmpty ==
    (RanCsv /\ parsed.kind # "none" /\ DataAsHeader(contents)) => parsed = ParseOk(<<>>)

\* C13 amended: the first row of such a file is consumed as the header and
\* never becomes an intent; the parse returns Ok with an empty sequence when no
\* row follows it, and the validation error, with no intent, when any row
\* follows it.
C13_DataAsHeaderConsumed ==
    (RanCsv /\ DataAsHeader(contents)) =>
        /\ headers # None => headers = Some(HeaderOf(contents))
        /\ records = <<>>
        /\ parsed.kind # "none" =>
              IF Len(CsvRecords(contents)) = 1
              THEN parsed = ParseOk(<<>>)
              ELSE parsed = ParseErr("validation")

C13_Witness ==
    /\ entry = "parse_csv_format" /\ Returned
    /\ parsed = ParseOk(<<>>)
    /\ DataAsHeader(contents)
    /\ HeaderOf(contents) = <<TypeA, <<"w">>, <<"1", ".", "2">>>>

\* every line of the text is blank after trimming or starts with ';'
OnlyBlankOrComment(text) ==
    LET ls == StrLines(text)
    IN  \A k \in 1..Len(ls) : LET l == Trim(ls[k]) IN l = <<>> \/ l[1] = ";"

\* C14: for an input whose lines are all blank after trimming or start with
\* ';', the zone-file parser collects no intent and returns Ok with the empty
\* sequence.
C14_BlankAndCommentOnlyIsEmpty ==
    (RanBind /\ (pc = "bind_loop" \/ ParserReturned)) =>
        \/ records = <<>> /\ (parsed.kind # "none" => parsed = ParseOk(<<>>))
        \/ ~OnlyBlankOrComment(contents)

C14_Witness ==
    /\ entry = "parse_bind_format" /\ Returned
    /\ parsed = ParseOk(<<>>)
    /\ OnlyBlankOrComment(contents)
    /\ Len(StrLines(contents)) = 2
    /\ \E k \in 1..2 : StrLines(contents)[k] # <<>> /\ Trim(StrLines(contents)[k]) = <<>>
    /\ \E k \in 1..2 : Len(SplitWhitespace(StrLines(contents)[k])) >= 4

\* the intents of the trimmed lines ls, line by line from the first, under the
\* origin and default TTL in effect before them
RECURSIVE IntentsInOrder(_, _, _)
IntentsInOrder(ls, origin, dttl) ==
    IF ls = <<>> THEN <<>>
    ELSE LET l == Head(ls)
             d == process_bind_directive(l, origin, dttl)
             r == parse_bind_record_line(l, origin, dttl)
         IN  IF l = <<>> \/ l[1] = ";" THEN IntentsInOrder(Tail(ls), origin, dttl)
             ELSE IF d.handled
             THEN IntentsInOrder(Tail(ls), d.default_origin, d.default_ttl)
             ELSE (IF IsSome(r.value) THEN <<r.value[1]>> ELSE <<>>)
                      \o IntentsInOrder(Tail(ls), origin, dttl)

\* C15: the zone-file parser's output is in file line order: while the loop
\* runs the collected intents are those of the lines consumed so far, earlier
\* line first, and the sequence the parser returns is that of all lines; a line that
\* yields nothing leaves the collected intents as they are and the loop goes
\* on to the next line.
C15_OutputInLineOrder ==
    /\ [](RanBind =>
             LET ls == BindLinesOf(contents)
             IN  /\ pc = "bind_loop" =>
                       records = IntentsInOrder(SubSeq(ls, 1, Len(ls) - Len(lines)), <<>>, 1)
                 /\ ParserReturned =>
                       parsed = ParseOk(IntentsInOrder(ls, <<>>, 1)))
    /\ [][(pc = "bind_loop" /\ lines # <<>>) =>
              /\ lines' = Tail(lines) /\ pc' = "bind_loop"
              /\ IsPrefix(records, records')]_vars

C15_Witness ==
    /\ entry = "parse_bind_format" /\ Returned
    /\ Len(parsed.value) = 2
    /\ parsed.value[1].record_type = TypeMX /\ parsed.value[2].record_type = TypeA
    /\ Len(BindLinesOf(contents)) = 3
    /\ Len(SplitWhitespace(BindLinesOf(contents)[2])) = 5
    /\ ToUppercase(SplitWhitespace(BindLinesOf(contents)[2])[3]) = <<"S", "R", "V">>

\* a TTL directive is among the lines ls
SeenTtlDirective(ls) == \E k \in 1..Len(ls) : StartsWith(ls[k], TtlDirective)

\* C16: when a zone-file line adds an intent, the intent's ttl is the value of
\* the line's second token if that token parses as an unsigned integer, and
\* otherwise the default TTL in effect at that line; the default TTL in effect
\* is 1 as long as no TTL directive has been consumed.
C16_TtlOverrideOrDefault ==
    /\ []((RanBind /\ pc = "bind_loop") =>
             LET ls == BindLinesOf(contents)
             IN  default_ttl # 1 => SeenTtlDirective(SubSeq(ls, 1, Len(ls) - Len(lines))))
    /\ [][(pc = "bind_loop" /\ lines # <<>> /\ Len(records') > Len(records)) =>
              LET toks == SplitWhitespace(Head(lines))
                  rec  == records'[Len(records')]
              IN  IF IsSome(ParseU32(toks[2]))
                  THEN rec.ttl = Some(DigitsValue(TrimStartMatches(toks[2], "+"), 0))
                  ELSE rec.ttl = Some(default_ttl)]_vars

C16_Witness ==
    /\ entry = "parse_bind_format" /\ Returned
    /\ default_ttl = 60
    /\ Len(parsed.value) = 1
    /\ parsed.value[1].ttl = Some(30)

\* a trimmed line that neither directive branch takes
NotDirective(l) == ~StartsWith(l, OriginDirective) /\ ~StartsWith(l, TtlDirective)

\* C17: a zone-file line that is not a directive and has 3 or fewer
\* whitespace-separated tokens adds no intent and changes nothing else, the
\* loop goes on with the line after it, and the parse still returns Ok.
C17_ShortLineSkipped ==
    /\ []((RanBind /\ parsed.kind # "none") => parsed.kind = "Ok")
    /\ [][(pc = "bind_loop" /\ lines # <<>>
              /\ NotDirective(Trim(Head(lines)))
              /\ Len(SplitWhitespace(Head(lines))) <= 3) =>
              /\ records' = records
              /\ default_origin' = default_origin /\ default_ttl' = default_ttl
              /\ lines' = Tail(lines)
              /\ pc' = "bind_loop"]_vars

C17_Witness ==
    /\ entry = "parse_bind_format" /\ Returned
    /\ Len(BindLinesOf(contents)) = 2
    /\ Len(SplitWhitespace(BindLinesOf(contents)[1])) = 3
    /\ NotDirective(BindLinesOf(contents)[1])
    /\ BindLinesOf(contents)[1][1] # ";"
    /\ Len(parsed.value) = 1
    /\ parsed.value[1].content = <<"1", ".", "2">>

\* the index (from 1) of the type token of a record line: after the owner, an
\* optional TTL and an optional class IN
TypeIndex(toks) ==
    LET i == IF IsSome(ParseU32(toks[2])) THEN 3 ELSE 2
    IN  IF toks[i] = ClassIN THEN i + 1 ELSE i
\* tok is text followed by zero or more '.', and text does not end in '.'
StrippedOfTrailingDots(text, tok) ==
    /\ IsPrefix(text, tok)
    /\ \A k \in (Len(text) + 1)..Len(tok) : tok[k] = "."
    /\ text # <<>> => text[Len(text)] # "."
\* the owner resolved against the origin in effect
ResolvedOwner(owner, origin) ==
    CASE owner = At_ -> origin
      [] owner # At_ /\ owner[Len(owner)] = "." ->
            CHOOSE t \in {SubSeq(owner, 1, n) : n \in 0..Len(owner)} :
                StrippedOfTrailingDots(t, owner)
      [] owner # At_ /\ owner[Len(owner)] # "." /\ origin = <<>> -> owner
      [] OTHER -> owner \o <<".">> \o origin

\* C18: when a zone-file line adds an intent of type A, AAAA, CNAME or NS, the
\* intent's content is the single token after the type without its trailing
\* '.', its name is the owner resolved against the origin in effect, its type
\* is the upper-cased type token and its priority is absent.
C18_SingleTokenContent ==
    [][(pc = "bind_loop" /\ lines # <<>> /\ Len(records') > Len(records)
          /\ records'[Len(records')].record_type \in {TypeA, TypeAAAA, TypeCNAME, TypeNS}) =>
          LET toks == SplitWhitespace(Head(lines))
              ti   == TypeIndex(toks)
              rec  == records'[Len(records')]
          IN  /\ rec.record_type = ToUppercase(toks[ti])
              /\ StrippedOfTrailingDots(rec.content, toks[ti + 1])
              /\ rec.name = ResolvedOwner(toks[1], default_origin)
              /\ rec.priority = None]_vars

C18_Witness ==
    /\ entry = "parse_bind_format" /\ Returned
    /\ default_origin = <<"e", ".", "c">>
    /\ parsed = ParseOk(<<CreateDnsRecord(TypeA, <<"w", ".", "e", ".", "c">>,
                                           <<"1", ".", "2">>, Some(1), Some(FALSE), None)>>)

\* a trimmed line that is parsed as an MX record with a priority token and a
\* content token
IsMxLine(l) ==
    LET toks == SplitWhitespace(l)
    IN  /\ l # <<>> /\ l[1] # ";" /\ NotDirective(l)
        /\ Len(toks) >= 4
        /\ ToUppercase(toks[TypeIndex(toks)]) = TypeMX
        /\ Len(toks) >= TypeIndex(toks) + 2
IsNumeric(tok) == tok # <<>> /\ \A k \in 1..Len(tok) : IsDigit(tok[k])

\* C19 as stated: an MX line adds one intent whose content is the second
\* token after the type without its trailing '.', and whose priority is the
\* value of the token after the type when that token is numeric and absent
\* when it is not.
C19_MxPriorityWhenNumeric ==
    [][(pc = "bind_loop" /\ lines # <<>> /\ IsMxLine(Trim(Head(lines)))) =>
          LET toks == SplitWhitespace(Head(lines))
              ti   == TypeIndex(toks)
              rec  == records'[Len(records')]
          IN  /\ Len(records') = Len(records) + 1
              /\ rec.record_type = TypeMX
              /\ StrippedOfTrailingDots(rec.content, toks[ti + 2])
              /\ rec.priority = IF IsNumeric(toks[ti + 1])
                                THEN Some(DigitsValue(toks[ti + 1], 0)) ELSE None]_vars

\* C19 amended: an MX line adds one intent whose content is the second token
\* after the type without its trailing '.', and whose priority is the value of
\* the token after the type when that token parses as a 16-bit unsigned
\* integer; when it does not (not a number, or above 65535) the intent is
\* still added, with priority absent.
C19_MxPriorityWhenParsed ==
    [][(pc = "bind_loop" /\ lines # <<>> /\ IsMxLine(Trim(Head(lines)))) =>
          LET toks == SplitWhitespace(Head(lines))
              ti   == TypeIndex(toks)
              rec  == records'[Len(records')]
          IN  /\ Len(records') = Len(records) + 1
              /\ rec.record_type = TypeMX
              /\ StrippedOfTrailingDots(rec.content, toks[ti + 2])
              /\ rec.priority = ParseU16(toks[ti + 1])
              /\ IsSome(rec.priority) =>
                    IsNumeric(toks[ti + 1]) /\ rec.priority[1] = DigitsValue(toks[ti + 1], 0)
              /\ ~IsNumeric(toks[ti + 1]) => rec.priority = None]_vars

C19_Witness ==
    /\ entry = "parse_bind_format" /\ Returned
    /\ Len(BindLinesOf(contents)) = 1
    /\ IsMxLine(BindLinesOf(contents)[1])
    /\ ~IsNumeric(SplitWhitespace(BindLinesOf(contents)[1])[4])
    /\ Len(parsed.value) = 1
    /\ parsed.value[1].record_type = TypeMX
    /\ parsed.value[1].priority = None
    /\ parsed.value[1].content = <<"m">>

\* joined is text between zero or more '"' on each side, and text neither
\* starts nor ends with '"'
StrippedOfSurroundingQuotes(text, joined) ==
    /\ text # <<>> => text[1] # "\"" /\ text[Len(text)] # "\""
    /\ \E i \in 0..(Len(joined) - Len(text)) :
          /\ SubSeq(joined, i + 1, i + Len(text)) = text
          /\ \A k \in (1..i) \cup ((i + Len(text) + 1)..Len(joined)) : joined[k] = "\""

\* C20: when a zone-file line adds an intent of type TXT, the intent's content
\* is the tokens after the type joined with single spaces, without the double
\* quotes around the joined text, its name is the resolved owner and its
\* priority is absent.
C20_TxtJoinedUnquoted ==
    [][(pc = "bind_loop" /\ lines # <<>> /\ Len(records') > Len(records)
          /\ records'[Len(records')].record_type = TypeTXT) =>
          LET toks == SplitWhitespace(Head(lines))
              ti   == TypeIndex(toks)
              rec  == records'[Len(records')]
          IN  /\ ToUppercase(toks[ti]) = TypeTXT
              /\ StrippedOfSurroundingQuotes(rec.content,
                      JoinWith(SubSeq(toks, ti + 1, Len(toks)), <<" ">>))
              /\ rec.name = ResolvedOwner(toks[1], default_origin)
              /\ rec.priority = None]_vars

C20_Witness ==
    /\ entry = "parse_bind_format" /\ Returned
    /\ Len(parsed.value) = 1
    /\ parsed.value[1].record_type = TypeTXT
    /\ parsed.value[1].content = <<"v", " ", "s">>
    /\ Len(SplitWhitespace(contents)) = 5

SupportedTypes == {TypeA, TypeAAAA, TypeCNAME, TypeMX, TypeNS, TypeTXT}
\* a trimmed line that reaches the dispatch on the record type
IsRecordLine(l) ==
    /\ l # <<>> /\ l[1] # ";" /\ NotDirective(l)
    /\ Len(SplitWhitespace(l)) >= 4

\* C21: every intent the zone-file parser collects has a record type in
\* {A, AAAA, CNAME, MX, NS, TXT}; a record line whose type token is any other
\* word adds no intent, the loop goes on with the next line and the parse
\* returns Ok.
C21_OnlySupportedTypes ==
    /\ [](RanBind =>
             /\ \A k \in 1..Len(records) : records[k].record_type \in SupportedTypes
             /\ parsed.kind # "none" => parsed = ParseOk(records))
    /\ [][(pc = "bind_loop" /\ lines # <<>> /\ IsRecordLine(Trim(Head(lines)))
              /\ LET toks == SplitWhitespace(Head(lines))
                 IN  ToUppercase(toks[TypeIndex(toks)]) \notin SupportedTypes) =>
              /\ records' = records
              /\ lines' = Tail(lines)
              /\ pc' = "bind_loop"]_vars

C21_Witness ==
    /\ entry = "parse_bind_format" /\ Returned
    /\ Len(BindLinesOf(contents)) = 2
    /\ IsRecordLine(BindLinesOf(contents)[1])
    /\ ToUppercase(SplitWhitespace(BindLinesOf(contents)[1])[3]) = <<"S", "R", "V">>
    /\ Len(parsed.value) = 1
    /\ parsed.value[1].record_type = TypeMX

\* C22: every intent the zone-file parser collects or returns has proxied =
\* false, and has priority present only if its type is MX.
C22_BindProxiedFalsePriorityMx ==
    RanBind =>
        /\ \A k \in 1..Len(records) :
              /\ records[k].proxied = Some(FALSE)
              /\ IsSome(records[k].priority) => records[k].record_type = TypeMX
        /\ \A k \in 1..Len(parsed.value) :
              /\ parsed.value[k].proxied = Some(FALSE)
              /\ IsSome(parsed.value[k].priority) => parsed.value[k].record_type = TypeMX

C22_Witness ==
    /\ RanBind /\ ParserReturned
    /\ Len(parsed.value) = 2
    /\ parsed.value[1].record_type = TypeTXT /\ parsed.value[1].priority = None
    /\ parsed.value[2].record_type = TypeMX /\ parsed.value[2].priority = Some(5)
    /\ parsed.value[1].proxied = Some(FALSE) /\ parsed.value[2].proxied = Some(FALSE)

\* the text holds '$ORIGIN', '$TTL' or ' IN ' at some position
HasZoneFileMarker(text) ==
    \E k \in 1..Len(text) :
        \/ k + 6 <= Len(text)
              /\ SubSeq(text, k, k + 6) = <<"$", "O", "R", "I", "G", "I", "N">>
        \/ k + 3 <= Len(text)
              /\ SubSeq(text, k, k + 3) \in {<<"$", "T", "T", "L">>, <<" ", "I", "N", " ">>}

\* C23: the format detector always makes a choice and the choice depends on
\* the text alone: every state of import_records past the detection has one
\* of the two parsers chosen, no state past it is a failure of the detection,
\* and the text is in the zone-file parser exactly when it holds '$ORIGIN',
\* '$TTL' or ' IN ', and in the tabular parser otherwise.
C23_DetectorTotalBySubstring ==
    ImportCall =>
        /\ format = "none" => pc = "detect" \/ (Returned /\ result = ResultErr("io"))
        /\ format # "none" =>
              /\ format \in {"bind", "csv"}
              /\ result.kind = "Err" => format = "csv" /\ result.error = "validation"
        /\ pc \in {"bind_loop", "csv_loop"} =>
              /\ format = "bind" <=> HasZoneFileMarker(contents)
              /\ pc = "bind_loop" <=> format = "bind"

C23_Witness ==
    /\ ImportCall /\ Returned
    /\ RanBind
    /\ HasColumn(Split(StrLines(contents)[1], ","), FieldContent)
    /\ Len(StrLines(contents)) = 2
    /\ result = ResultOk(ZeroStats)

\* C24: when a zone-file line adds an intent, of whatever type, the intent's
\* name is the line's first token resolved against the origin in effect: the
\* origin itself for '@', the token without its trailing '.' and without the
\* origin for a token ending in '.', 'token.origin' for any other token under
\* a non-empty origin, and the token unchanged under the empty origin.
C24_OwnerNameResolution ==
    [][(pc = "bind_loop" /\ lines # <<>> /\ Len(records') > Len(records)) =>
          LET owner == SplitWhitespace(Head(lines))[1]
              name  == records'[Len(records')].name
          IN  /\ name = ResolvedOwner(owner, default_origin)
              /\ owner = At_ => name = default_origin
              /\ (owner # At_ /\ owner[Len(owner)] = ".") =>
                    StrippedOfTrailingDots(name, owner)
              /\ (owner # At_ /\ owner[Len(owner)] # "." /\ default_origin # <<>>) =>
                    name = owner \o <<".">> \o default_origin
              /\ (owner # At_ /\ owner[Len(owner)] # "." /\ default_origin = <<>>) =>
                    name = owner]_vars

C24_Witness ==
    /\ entry = "parse_bind_format" /\ Returned
    /\ default_origin = <<"e", ".", "c">>
    /\ Len(parsed.value) = 1
    /\ parsed.value[1].record_type = TypeCNAME
    /\ parsed.value[1].name = <<"f">>

\* tok without one trailing '.', if it has one
WithoutOneTrailingDot(tok) ==
    IF tok # <<>> /\ tok[Len(tok)] = "." THEN SubSeq(tok, 1, Len(tok) - 1) ELSE tok

\* C25 as stated: an origin directive line sets default_origin to its second
\* token with exactly one trailing '.' stripped, and adds no intent.
C25_OriginOneDotStripped ==
    [][(pc = "bind_loop" /\ lines # <<>>
          /\ StartsWith(Trim(Head(lines)), OriginDirective)
          /\ Len(SplitWhitespace(Head(lines))) >= 2) =>
          /\ default_origin' = WithoutOneTrailingDot(SplitWhitespace(Head(lines))[2])
          /\ records' = records]_vars

\* C25 amended: an origin directive line sets default_origin to its second
\* token with every trailing '.' stripped, or to the empty string when the
\* line has no second token; it adds no intent, leaves default_ttl as it is
\* and the loop goes on.
C25_OriginAllDotsStripped ==
    [][(pc = "bind_loop" /\ lines # <<>>
          /\ StartsWith(Trim(Head(lines)), OriginDirective)) =>
          LET toks == SplitWhitespace(Head(lines))
          IN  /\ IF Len(toks) >= 2
                 THEN StrippedOfTrailingDots(default_origin', toks[2])
                 ELSE default_origin' = <<>>
              /\ records' = records
              /\ default_ttl' = default_ttl
              /\ pc' = "bind_loop"]_vars

C25_Witness ==
    /\ entry = "parse_bind_format" /\ Returned
    /\ parsed = ParseOk(<<>>)
    /\ Len(BindLinesOf(contents)) = 1
    /\ SplitWhitespace(contents) = <<OriginDirective, <<"e", ".", "c", ".", ".">>>>
    /\ default_origin = <<"e", ".", "c">>

\* a trimmed line the TTL directive branch takes
IsTtlDirective(l) == ~StartsWith(l, OriginDirective) /\ StartsWith(l, TtlDirective)

\* C26 as stated: a TTL directive line sets default_ttl to its second token
\* parsed as an unsigned integer and adds no intent; when the token is not
\* numeric, out of range or missing, default_ttl becomes 1.
C26_TtlFallbackAlwaysOne ==
    [][(pc = "bind_loop" /\ lines # <<>> /\ IsTtlDirective(Trim(Head(lines)))) =>
          LET toks == SplitWhitespace(Head(lines))
          IN  /\ default_ttl' = IF Len(toks) >= 2 /\ IsSome(ParseU32(toks[2]))
                                THEN ParseU32(toks[2])[1] ELSE 1
              /\ records' = records]_vars

\* C26 amended: a TTL directive line adds no intent; when it has a second
\* token, default_ttl becomes the token's value if it parses as a 32-bit
\* unsigned integer and 1 if it does not (not numeric or out of range); when
\* the line has no second token, default_ttl keeps its previous value.
C26_TtlFallbackOneUnlessMissing ==
    [][(pc = "bind_loop" /\ lines # <<>> /\ IsTtlDirective(Trim(Head(lines)))) =>
          LET toks == SplitWhitespace(Head(lines))
          IN  /\ (Len(toks) >= 2 /\ IsSome(ParseU32(toks[2]))) =>
                    default_ttl' = DigitsValue(TrimStartMatches(toks[2], "+"), 0)
              /\ (Len(toks) >= 2 /\ ParseU32(toks[2]) = None) => default_ttl' = 1
              /\ Len(toks) < 2 => default_ttl' = default_ttl
              /\ records' = records
              /\ default_origin' = default_origin
              /\ pc' = "bind_loop"]_vars

C26_Witness ==
    /\ entry = "parse_bind_format" /\ Returned
    /\ Len(BindLinesOf(contents)) = 3
    /\ SplitWhitespace(BindLinesOf(contents)[1]) = <<TtlDirective, <<"6", "0">>>>
    /\ IsTtlDirective(BindLinesOf(contents)[2])
    /\ Len(SplitWhitespace(BindLinesOf(contents)[2])) = 2
    /\ IsNumeric(SplitWhitespace(BindLinesOf(contents)[2])[2])
    /\ default_ttl = 1
    /\ Len(parsed.value) = 1
    /\ parsed.value[1].ttl = Some(1)

\* C27: a zone-file parse starts with the empty origin and the default TTL 1;
\* a line that is not a directive (a record line that is emitted, skipped or
\* unsupported, a comment or a blank line) leaves both unchanged; an intent
\* added by a line is built from the origin and the default TTL in effect
\* before that line; and no line changes an intent collected before it.
C27_ParserContextFrame ==
    /\ [][(pc # "bind_loop" /\ pc' = "bind_loop") =>
              default_origin' = <<>> /\ default_ttl' = 1 /\ records' = <<>>]_vars
    /\ [][(pc = "bind_loop" /\ lines # <<>>) =>
              LET l    == Trim(Head(lines))
                  toks == SplitWhitespace(l)
              IN  /\ IsPrefix(records, records')
                  /\ NotDirective(l) =>
                        default_origin' = default_origin /\ default_ttl' = default_ttl
                  /\ ~NotDirective(l) => records' = records
                  /\ Len(records') > Len(records) =>
                        LET rec == records'[Len(records')]
                        IN  /\ rec.name = ResolvedOwner(toks[1], default_origin)
                            /\ ParseU32(toks[2]) = None => rec.ttl = Some(default_ttl)]_vars

C27_Witness ==
    /\ entry = "parse_bind_format" /\ Returned
    /\ Len(BindLinesOf(contents)) = 3
    /\ StartsWith(BindLinesOf(contents)[2], OriginDirective)
    /\ default_origin = <<"e", ".", "c">>
    /\ Len(parsed.value) = 2
    /\ parsed.value[1].name = <<"w">>
    /\ parsed.value[2].name = <<"w", ".", "e", ".", "c">>


(***************************************************************************)
(* retry_with_backoff: attempts, stopping and waits.                       *)
(***************************************************************************)
RetryReturned == retry_pc = "returned"
\* an operation result that is an error the code retries
RetryableFailure(r) == r.kind = "Err" /\ r.error \in {"Network", "RateLimit", "Timeout"}
\* an operation result after which no retry is due
Final(r) == r.kind = "Ok" \/ (r.kind = "Err" /\ r.error \notin {"Network", "RateLimit", "Timeout"})
AllRetryableFailures == \A i \in 1..Len(operation_results) : RetryableFailure(operation_results[i])

\* C28 as stated: a retry_with_backoff call never panics and never invokes the
\* operation more than max_attempts times, and a call that returned after
\* nothing but retryable failures has invoked the operation exactly
\* max_attempts times and returns the error of the last invocation.
C28_AtMostMaxAttempts ==
    /\ retry_pc # "panicked"
    /\ invocations <= config.max_attempts
    /\ RetryReturned /\ AllRetryableFailures =>
          /\ invocations = config.max_attempts
          /\ retry_result = operation_results[Len(operation_results)]

\* C29: the first invocation that succeeds or fails with a non-retryable
\* error is the last one: the call has returned that invocation's outcome,
\* and the number of invocations is the position of that invocation (1 for a
\* non-retryable first failure, k for a success after k-1 retryable failures).
C29_StopsAtFirstFinalOutcome ==
    \A k \in 1..Len(operation_results) :
        Final(operation_results[k]) =>
            /\ k = Len(operation_results)
            /\ invocations = k
            /\ RetryReturned
            /\ retry_result = operation_results[k]
            /\ \A j \in 1..(k - 1) : RetryableFailure(operation_results[j])

C29_Witness ==
    /\ RetryReturned
    /\ Len(operation_results) = 3
    /\ operation_results[1] = Err("Network")
    /\ operation_results[2] = Err("Timeout")
    /\ operation_results[3] = Ok
    /\ invocations = 3
    /\ retry_result = Ok

\* C30 as stated: the first wait is initial_delay, every later wait is the
\* previous wait times the multiplier capped at max_delay, and no wait exceeds
\* max_delay.
C30_NoWaitExceedsMaxDelay ==
    /\ waits # <<>> => waits[1] = config.initial_delay
    /\ \A i \in 2..Len(waits) :
          waits[i] = min(waits[i - 1] * config.multiplier, config.max_delay)
    /\ \A i \in 1..Len(waits) : waits[i] <= config.max_delay

====
